---- MODULE Spec2Model ----
(***************************************************************************)
(* Model of the glam-store product backend (src/index.js): an Express app  *)
(* with a shared-secret admin gate, a login route, five product routes     *)
(* over a mongoose model, and an image upload route that stages a file     *)
(* with multer and forwards it to cloudinary.                              *)
(*                                                                         *)
(* The store (mongoose/MongoDB), multer, cloudinary and fs are libraries;  *)
(* they are modelled by their documented behaviour at the calls the code   *)
(* makes: schema casting, findById* on a malformed id, atomic              *)
(* findOneAndUpdate/findOneAndDelete, unspecified order among equal sort   *)
(* keys.  The store connection is assumed up.                              *)
(*                                                                         *)
(* Spec runs the product routes one request at a time under the admin's   *)
(* credential; UpdateSpec, CreateSpec and ListSpec are its restrictions to *)
(* the routes one property is about; GateSpec runs login and the gated     *)
(* routes under every credential; ConcSpec interleaves the mutation routes *)
(* at their awaits.                                                        *)
(***************************************************************************)
EXTENDS Integers, Sequences, FiniteSets, TLC

\* ------------------------------------------------------------------ bounds
MaxIds == 2          \* ObjectIds the model lets `new Product` allocate
MaxTime == 1         \* last value of the millisecond clock
MaxFiles == 2        \* files multer may stage
MaxSlots == 2        \* requests in flight at once (concurrent specification)

\* ------------------------------------------------------- JavaScript values
\* A JSON/JS value: undefined, null, a string, a number or an object/array.
Undef == [t |-> "undef", s |-> "", n |-> 0]
Null == [t |-> "null", s |-> "", n |-> 0]
Obj == [t |-> "obj", s |-> "", n |-> 0]
Str(x) == [t |-> "str", s |-> x, n |-> 0]
Num(k) == [t |-> "num", s |-> "", n |-> k]

\* JavaScript `!v`
Falsy(v) ==
    \/ v.t \in {"undef", "null"}
    \/ v.t = "str" /\ v.s = ""
    \/ v.t = "num" /\ v.n = 0

\* JavaScript `a === b` (two distinct objects are never identical)
StrictEq(a, b) == a.t # "obj" /\ a = b

\* JavaScript `a || b`
OrElse(a, b) == IF Falsy(a) THEN b ELSE a

\* Decimal numerals the model's request bodies use, with their values.
Numerals == {<<"7", 7>>, <<"0", 0>>}
IsNumeral(x) == \E p \in Numerals : p[1] = x
NumeralValue(x) == (CHOOSE p \in Numerals : p[1] = x)[2]

\* The 24-hex-digit string of the k-th ObjectId.
HexString(k) == "oid" \o ToString(k)
IsObjectIdString(x) == \E k \in 1..(MaxIds + 1) : HexString(k) = x
ObjectIdOf(x) == CHOOSE k \in 1..(MaxIds + 1) : HexString(k) = x

\* ---------------------------------------------------------- mongoose casts
\* Each cast returns [ok, v]: ok = FALSE is a CastError.
CastOk(v) == [ok |-> TRUE, v |-> v]
CastError == [ok |-> FALSE, v |-> Undef]

castString(v) ==
    CASE v.t \in {"undef", "null", "str"} -> CastOk(v)
      [] v.t = "num" -> CastOk(Str(ToString(v.n)))
      [] OTHER -> CastError

castNumber(v) ==
    CASE v.t \in {"undef", "null", "num"} -> CastOk(v)
      [] v.t = "str" /\ v.s = "" -> CastOk(Null)
      [] v.t = "str" /\ IsNumeral(v.s) -> CastOk(Num(NumeralValue(v.s)))
      [] OTHER -> CastError

\* Dates are modelled by their millisecond value.
castDate(v) ==
    CASE v.t \in {"undef", "null", "num"} -> CastOk(v)
      [] v.t = "str" /\ v.s = "" -> CastOk(Null)
      [] v.t = "str" /\ IsNumeral(v.s) -> CastOk(Num(NumeralValue(v.s)))
      [] OTHER -> CastError

castObjectId(v) ==
    CASE v.t \in {"undef", "null"} -> CastOk(v)
      [] v.t = "str" /\ IsObjectIdString(v.s) -> CastOk(Num(ObjectIdOf(v.s)))
      [] OTHER -> CastError

\* ------------------------------------------------------------ productSchema
StringPaths == {"name", "brand", "size", "description", "imageUrl"}
productSchema == StringPaths \cup {"price", "createdAt"}
SchemaPaths == productSchema \cup {"_id"}

Cast(path, v) ==
    CASE path \in StringPaths -> castString(v)
      [] path = "price" -> castNumber(v)
      [] path = "createdAt" -> castDate(v)
      [] OTHER -> castObjectId(v)

\* Keys a request body may carry; "stock" is not a schema path.
BodyKeys == SchemaPaths \cup {"stock", "password"}
EmptyBody == [k \in BodyKeys |-> Undef]


\* ------------------------------------------------------------------- state
VARIABLES
    env,        \* process.env: ADMIN_PASSWORD and ADMIN_TOKEN as set (or not) at start
    products,   \* the Product collection: a set of documents, one per _id
    nextId,     \* ordinal of the next ObjectId `new Product` generates
    now,        \* Date.now()
    tmpFiles,   \* files present under tmp/
    nextFile,   \* ordinal of the next file name multer generates
    req,        \* the request handled last
    res,        \* the response sent last
    inserted,   \* history: every _id that was ever persisted
    deleted,    \* history: _id -> number of DELETE requests answered 200
    slots       \* requests in flight, suspended at their store call

vars == <<env, products, nextId, now, tmpFiles, nextFile, req, res,
          inserted, deleted, slots>>

\* ------------------------------------------------------------------ config
ADMIN_PASSWORD == env.ADMIN_PASSWORD
ADMIN_TOKEN == OrElse(env.ADMIN_TOKEN, Str("changeme"))

\* .env with both secrets set, and with neither.
Configured == [ADMIN_PASSWORD |-> Str("pw"), ADMIN_TOKEN |-> Str("tok")]
Envs == {[ADMIN_PASSWORD |-> Undef, ADMIN_TOKEN |-> Undef], Configured}

\* ---------------------------------------------------------------- requests
NoReq ==
    [op |-> "none", header |-> Undef, query |-> Undef, id |-> "",
     body |-> EmptyBody, file |-> FALSE]

LoginReq(password) ==
    [NoReq EXCEPT !.op = "login", !.body = [EmptyBody EXCEPT !.password = password]]

Request(op, cred, id, body, file) ==
    [op |-> op, header |-> cred[1], query |-> cred[2], id |-> id,
     body |-> body, file |-> file]

\* A slot holds a request suspended at its store call, with the document its
\* handler constructed before the call (create only).
Idle == [req |-> NoReq, docs |-> <<>>]

\* --------------------------------------------------------------- responses
NoFile == 0
Response(status, docs, call) ==
    [status |-> status, docs |-> docs, token |-> Undef, url |-> Undef,
     file |-> NoFile, call |-> call]
NoRes == Response(0, <<>>, "none")

\* ---------------------------------------------------------------- checkAdmin
\* Mutant: the middleware only requires that some token is present.
checkAdmin_anyToken(r) ==
    LET token == OrElse(r.header, r.query)
    IN ~Falsy(token)

\* TRUE when the middleware calls next(); FALSE when it answers 401.
checkAdmin(r) ==
    LET token == OrElse(r.header, r.query)
    IN ~(Falsy(token) \/ ~StrictEq(token, ADMIN_TOKEN))

Unauthorized == Response(401, <<>>, "none")


\* ------------------------------------------------------------ Product model
\* `new Product({ name, brand, size, description, price, imageUrl })`: the six
\* destructured keys are cast, price and createdAt take their defaults, and
\* the constructor generates the _id.
CreatePaths == {"name", "brand", "size", "description", "price", "imageUrl"}

\* Mutant: the schema's default for price is lost.
NewProduct_noDefault(body, id, t) ==
    [_id |-> id,
     name |-> Cast("name", body.name).v,
     brand |-> Cast("brand", body.brand).v,
     size |-> Cast("size", body.size).v,
     description |-> Cast("description", body.description).v,
     price |-> Cast("price", body.price).v,
     imageUrl |-> Cast("imageUrl", body.imageUrl).v,
     createdAt |-> Num(t)]

NewProduct(body, id, t) ==
    [_id |-> id,
     name |-> Cast("name", body.name).v,
     brand |-> Cast("brand", body.brand).v,
     size |-> Cast("size", body.size).v,
     description |-> Cast("description", body.description).v,
     price |-> IF body.price.t = "undef" THEN Num(0) ELSE Cast("price", body.price).v,
     imageUrl |-> Cast("imageUrl", body.imageUrl).v,
     createdAt |-> Num(t)]

\* Document validation run by save(): no cast failed, and the required
\* string path holds a string of positive length.
Validates(body, doc) ==
    /\ \A path \in CreatePaths : Cast(path, body[path]).ok
    /\ doc.name.t = "str" /\ doc.name.s # ""

\* Result of a store call: it threw, or it resolved with zero or one document;
\* `store` is the collection afterwards.
Threw(store) == [err |-> TRUE, docs |-> <<>>, store |-> store]
Resolved(docs, store) == [err |-> FALSE, docs |-> docs, store |-> store]

save(store, doc, body) ==
    IF Validates(body, doc)
    THEN Resolved(<<doc>>, store \cup {doc})
    ELSE Threw(store)

Ids(store) == {d._id : d \in store}
ById(store, k) == CHOOSE d \in store : d._id = k

findById(store, id) ==
    LET c == castObjectId(Str(id))
    IN IF ~c.ok THEN Threw(store)
       ELSE IF c.v.n \in Ids(store) THEN Resolved(<<ById(store, c.v.n)>>, store)
       ELSE Resolved(<<>>, store)

\* The paths of an update body that survive strict mode, and the $set they
\* become.
UpdatePaths(body) == {path \in SchemaPaths : body[path].t # "undef"}

\* Mutant: the body replaces the document instead of patching it.
ApplySet_replace(doc, body) ==
    LET set(path) == Cast(path, body[path]).v
    IN [_id |-> doc._id,
        name |-> set("name"),
        brand |-> set("brand"),
        size |-> set("size"),
        description |-> set("description"),
        price |-> set("price"),
        imageUrl |-> set("imageUrl"),
        createdAt |-> set("createdAt")]

ApplySet(doc, body) ==
    LET set(path) == IF path \in UpdatePaths(body)
                     THEN Cast(path, body[path]).v
                     ELSE doc[path]
    IN [_id |-> doc._id,
        name |-> set("name"),
        brand |-> set("brand"),
        size |-> set("size"),
        description |-> set("description"),
        price |-> set("price"),
        imageUrl |-> set("imageUrl"),
        createdAt |-> set("createdAt")]

\* findByIdAndUpdate(id, body, { new: true }): no validators run, no upsert;
\* a $set of _id to another value is rejected by the server.
\* Mutant: the update upserts.
findByIdAndUpdate_upsert(store, id, body) ==
    LET c == castObjectId(Str(id))
    IN IF ~c.ok \/ \E path \in UpdatePaths(body) : ~Cast(path, body[path]).ok
       THEN Threw(store)
       ELSE IF c.v.n \notin Ids(store)
       THEN LET upserted == ApplySet(NewProduct(EmptyBody, c.v.n, 0), body)
            IN Resolved(<<upserted>>, store \cup {upserted})
       ELSE IF "_id" \in UpdatePaths(body) /\ Cast("_id", body["_id"]).v # Num(c.v.n)
       THEN Threw(store)
       ELSE LET updated == ApplySet(ById(store, c.v.n), body)
            IN Resolved(<<updated>>, (store \ {ById(store, c.v.n)}) \cup {updated})

findByIdAndUpdate(store, id, body) ==
    LET c == castObjectId(Str(id))
    IN IF ~c.ok \/ \E path \in UpdatePaths(body) : ~Cast(path, body[path]).ok
       THEN Threw(store)
       ELSE IF c.v.n \notin Ids(store) THEN Resolved(<<>>, store)
       ELSE IF "_id" \in UpdatePaths(body) /\ Cast("_id", body["_id"]).v # Num(c.v.n)
       THEN Threw(store)
       ELSE LET updated == ApplySet(ById(store, c.v.n), body)
            IN Resolved(<<updated>>, (store \ {ById(store, c.v.n)}) \cup {updated})

findByIdAndDelete(store, id) ==
    LET c == castObjectId(Str(id))
    IN IF ~c.ok THEN Threw(store)
       ELSE IF c.v.n \in Ids(store)
       THEN Resolved(<<ById(store, c.v.n)>>, store \ {ById(store, c.v.n)})
       ELSE Resolved(<<>>, store)

\* find().sort({ createdAt: -1 }): null sorts below every date, and the order
\* among equal keys is whatever the server produces.
SortKey(doc) == IF doc.createdAt.t = "num" THEN doc.createdAt.n ELSE -1

\* Mutant: the sort is ascending.
findSorted_ascending(store) ==
    LET n == Cardinality(store)
    IN { list \in [1..n -> store] :
           /\ \A i, j \in 1..n : i # j => list[i] # list[j]
           /\ \A i, j \in 1..n : i < j => SortKey(list[i]) <= SortKey(list[j]) }

findSorted(store) ==
    LET n == Cardinality(store)
    IN { list \in [1..n -> store] :
           /\ \A i, j \in 1..n : i # j => list[i] # list[j]
           /\ \A i, j \in 1..n : i < j => SortKey(list[i]) >= SortKey(list[j]) }


\* ------------------------------------------------------------------ inputs
\* Credentials a request presents: <<x-admin-token header, token query value>>.
Creds ==
    { <<Str("tok"), Undef>>, <<Str("changeme"), Undef>>,
      <<Undef, Undef>>, <<Undef, Str("tok")>>, <<Str(""), Str("changeme")>>,
      <<Str("tok"), Str("changeme")>>, <<Undef, Obj>> }

Passwords == {Undef, Str(""), Str("pw"), Str("nope")}

\* :id values: every ObjectId the model can allocate, one it never allocates,
\* and a string that is no ObjectId.
IdParams == {HexString(k) : k \in 1..(MaxIds + 1)} \cup {"abc"}

Body(name, brand, price) ==
    [EmptyBody EXCEPT !.name = name, !.brand = brand, !.price = price]

CreateBodies ==
    { EmptyBody,
      Body(Str(""), Undef, Undef),
      Body(Str("a"), Undef, Undef),
      Body(Str("b"), Str("x"), Num(7)),
      Body(Str("a"), Undef, Str("abc")),
      Body(Obj, Undef, Undef),
      [Body(Num(5), Undef, Undef) EXCEPT !.createdAt = Num(0), !["_id"] = Str(HexString(1))] }

UpdateBodies ==
    { EmptyBody,
      [EmptyBody EXCEPT !.price = Str("7"), !.stock = Num(3)],
      [EmptyBody EXCEPT !.name = Str("")],
      [EmptyBody EXCEPT !.price = Str("abc")],
      [EmptyBody EXCEPT !.createdAt = Num(0)],
      [EmptyBody EXCEPT !["_id"] = Str(HexString(1)), !.brand = Str("y")],
      [EmptyBody EXCEPT !["_id"] = Str(HexString(MaxIds + 1))] }

DefaultBody == Body(Str("a"), Undef, Undef)

Requests(op, creds, ids, bodies, files) ==
    { Request(op, c, i, b, f) : c \in creds, i \in ids, b \in bodies, f \in files }

LoginRequests == {LoginReq(p) : p \in Passwords}
ListRequests == {[NoReq EXCEPT !.op = "list"]}
GetRequests == {[NoReq EXCEPT !.op = "get", !.id = i] : i \in IdParams}

\* The product routes, called by the admin with the token in the header.
Admin == {<<ADMIN_TOKEN, Undef>>}
CreateRequests == Requests("create", Admin, {""}, CreateBodies, {FALSE})
UpdateRequests == Requests("update", Admin, IdParams, UpdateBodies, {FALSE})
DeleteRequests == Requests("delete", Admin, IdParams, {EmptyBody}, {FALSE})

\* The gated routes, called with every credential.
GateCreates == Requests("create", Creds, {""}, {EmptyBody, DefaultBody}, {FALSE})
GateUpdates ==
    Requests("update", Creds, {HexString(1)},
             {[EmptyBody EXCEPT !.price = Str("7")]}, {FALSE})
GateDeletes == Requests("delete", Creds, {HexString(1)}, {EmptyBody}, {FALSE})
GateUploads == Requests("upload", Creds, {""}, {EmptyBody}, BOOLEAN)

\* -------------------------------------------------------------------- Init
\* The process has started: configuration read, collection and tmp/ empty.
Started ==
    /\ products = {}
    /\ nextId = 1
    /\ now = 0
    /\ tmpFiles = {}
    /\ nextFile = 1
    /\ req = NoReq
    /\ res = NoRes
    /\ inserted = {}
    /\ deleted = [k \in 1..(MaxIds + 1) |-> 0]
    /\ slots = [k \in 1..MaxSlots |-> Idle]

Init == env = Configured /\ Started
GateInit == env \in Envs /\ Started

Respond(r, rs) == req' = r /\ res' = rs

\* The clock advances between requests.
Tick ==
    /\ now < MaxTime
    /\ now' = now + 1
    /\ UNCHANGED <<env, products, nextId, tmpFiles, nextFile, req, res,
                   inserted, deleted, slots>>

\* ---------------------------------------------------------- POST /api/login
\* Mutant: the token is the literal default, whatever the environment sets.
Login_defaultToken(r) ==
    /\ r.op = "login"
    /\ LET password == r.body.password
       IN IF Falsy(password) THEN Respond(r, Response(400, <<>>, "none"))
          ELSE IF ~StrictEq(password, ADMIN_PASSWORD)
          THEN Respond(r, Response(401, <<>>, "none"))
          ELSE Respond(r, [Response(200, <<>>, "none") EXCEPT !.token = Str("changeme")])
    /\ UNCHANGED <<env, products, nextId, now, tmpFiles, nextFile,
                   inserted, deleted, slots>>

Login(r) ==
    /\ r.op = "login"
    /\ LET password == r.body.password
       IN IF Falsy(password) THEN Respond(r, Response(400, <<>>, "none"))
          ELSE IF ~StrictEq(password, ADMIN_PASSWORD)
          THEN Respond(r, Response(401, <<>>, "none"))
          ELSE Respond(r, [Response(200, <<>>, "none") EXCEPT !.token = ADMIN_TOKEN])
    /\ UNCHANGED <<env, products, nextId, now, tmpFiles, nextFile,
                   inserted, deleted, slots>>

\* -------------------------------------------------------- GET /api/products
ListProducts(r) ==
    /\ r.op = "list"
    /\ \E list \in findSorted(products) : Respond(r, Response(200, list, "find"))
    /\ UNCHANGED <<env, products, nextId, now, tmpFiles, nextFile,
                   inserted, deleted, slots>>

\* ---------------------------------------------------- GET /api/products/:id
GetProduct(r) ==
    /\ r.op = "get"
    /\ LET p == findById(products, r.id)
       IN IF p.err THEN Respond(r, Response(500, <<>>, "findById"))
          ELSE IF p.docs = <<>> THEN Respond(r, Response(404, <<>>, "findById"))
          ELSE Respond(r, Response(200, p.docs, "findById"))
    /\ UNCHANGED <<env, products, nextId, now, tmpFiles, nextFile,
                   inserted, deleted, slots>>


\* --------------------------------------------------- POST /api/products
StoreUnchanged == UNCHANGED <<products, nextId, inserted, deleted>>

CreateProduct(r) ==
    /\ r.op = "create"
    /\ IF ~checkAdmin(r) THEN Respond(r, Unauthorized) /\ StoreUnchanged
       ELSE IF Falsy(r.body.name)
       THEN Respond(r, Response(400, <<>>, "none")) /\ StoreUnchanged
       ELSE /\ nextId <= MaxIds
            /\ LET prod == NewProduct(r.body, nextId, now)
                   saved == save(products, prod, r.body)
               IN /\ nextId' = nextId + 1
                  /\ products' = saved.store
                  /\ inserted' = inserted \cup Ids(saved.store)
                  /\ IF saved.err THEN Respond(r, Response(500, <<>>, "save"))
                     ELSE Respond(r, Response(200, saved.docs, "save"))
                  /\ UNCHANGED deleted
    /\ UNCHANGED <<env, now, tmpFiles, nextFile, slots>>

\* ------------------------------------------------ PUT /api/products/:id
UpdateProduct(r) ==
    /\ r.op = "update"
    /\ IF ~checkAdmin(r) THEN Respond(r, Unauthorized) /\ UNCHANGED products
       ELSE LET updated == findByIdAndUpdate(products, r.id, r.body)
            IN /\ products' = updated.store
               /\ IF updated.err
                  THEN Respond(r, Response(500, <<>>, "findByIdAndUpdate"))
                  ELSE IF updated.docs = <<>>
                  THEN Respond(r, Response(404, <<>>, "findByIdAndUpdate"))
                  ELSE Respond(r, Response(200, updated.docs, "findByIdAndUpdate"))
    /\ UNCHANGED <<env, nextId, now, tmpFiles, nextFile, inserted, deleted, slots>>

\* --------------------------------------------- DELETE /api/products/:id
DeleteProduct(r) ==
    /\ r.op = "delete"
    /\ IF ~checkAdmin(r)
       THEN Respond(r, Unauthorized) /\ UNCHANGED <<products, deleted>>
       ELSE LET removed == findByIdAndDelete(products, r.id)
            IN /\ products' = removed.store
               /\ IF removed.err
                  THEN /\ Respond(r, Response(500, <<>>, "findByIdAndDelete"))
                       /\ UNCHANGED deleted
                  ELSE IF removed.docs = <<>>
                  THEN /\ Respond(r, Response(404, <<>>, "findByIdAndDelete"))
                       /\ UNCHANGED deleted
                  ELSE /\ Respond(r, Response(200, <<>>, "findByIdAndDelete"))
                       /\ deleted' = [deleted EXCEPT ![removed.docs[1]._id] = @ + 1]
    /\ UNCHANGED <<env, nextId, now, tmpFiles, nextFile, inserted, slots>>

\* ------------------------------------------------------ POST /api/upload
\* upload.single('image') runs after checkAdmin and stages the attached file
\* under a fresh name; cloudinary.uploader.upload resolves or rejects.
Upload(r) ==
    /\ r.op = "upload"
    /\ IF ~checkAdmin(r)
       THEN Respond(r, Unauthorized) /\ UNCHANGED <<tmpFiles, nextFile>>
       ELSE IF ~r.file
       THEN Respond(r, Response(400, <<>>, "none")) /\ UNCHANGED <<tmpFiles, nextFile>>
       ELSE /\ nextFile <= MaxFiles
            /\ nextFile' = nextFile + 1
            /\ \E uploaded \in BOOLEAN :
                 IF uploaded
                 THEN /\ tmpFiles' = (tmpFiles \cup {nextFile}) \ {nextFile}
                      /\ Respond(r, [Response(200, <<>>, "cloudinary.upload")
                                       EXCEPT !.url = Str("https://res.cloudinary.com/image"),
                                              !.file = nextFile])
                 ELSE /\ tmpFiles' = tmpFiles \cup {nextFile}
                      /\ Respond(r, [Response(500, <<>>, "cloudinary.upload")
                                       EXCEPT !.file = nextFile])
    /\ UNCHANGED <<env, products, nextId, now, inserted, deleted, slots>>

\* -------------------------------------------------------------------- Next
\* The product routes under the admin's credential.
Next ==
    \/ Tick
    \/ \E r \in ListRequests : ListProducts(r)
    \/ \E r \in GetRequests : GetProduct(r)
    \/ \E r \in CreateRequests : CreateProduct(r)
    \/ \E r \in UpdateRequests : UpdateProduct(r)
    \/ \E r \in DeleteRequests : DeleteProduct(r)

Spec == Init /\ [][Next]_vars

\* Login, and the gated routes under every credential.
GateNext ==
    \/ \E r \in LoginRequests : Login(r)
    \/ \E r \in GateCreates : CreateProduct(r)
    \/ \E r \in GateUpdates : UpdateProduct(r)
    \/ \E r \in GateDeletes : DeleteProduct(r)
    \/ \E r \in GateUploads : Upload(r)

GateSpec == GateInit /\ [][GateNext]_vars

\* Update, over two kinds of record.
UpdateNext ==
    \/ \E r \in Requests("create", Admin, {""},
                         {DefaultBody, Body(Str("b"), Str("x"), Num(7))}, {FALSE}) :
         CreateProduct(r)
    \/ \E r \in UpdateRequests : UpdateProduct(r)

UpdateSpec == Init /\ [][UpdateNext]_vars

\* Create, with delete freeing identifiers.
CreateNext ==
    \/ \E r \in CreateRequests : CreateProduct(r)
    \/ \E r \in DeleteRequests : DeleteProduct(r)

CreateSpec == Init /\ [][CreateNext]_vars

\* List, over records created, re-dated and deleted as the clock advances.
ListNext ==
    \/ Tick
    \/ \E r \in ListRequests : ListProducts(r)
    \/ \E r \in Requests("create", Admin, {""}, {DefaultBody}, {FALSE}) :
         CreateProduct(r)
    \/ \E r \in Requests("update", Admin, IdParams,
                         {[EmptyBody EXCEPT !.createdAt = Num(0)]}, {FALSE}) :
         UpdateProduct(r)
    \/ \E r \in DeleteRequests : DeleteProduct(r)

ListSpec == Init /\ [][ListNext]_vars


\* ------------------------------------------------- concurrent requests
\* Each mutation handler runs to its one await, is suspended while the store
\* serves the call, and resumes to answer.  The store serves one call at a
\* time, atomically; calls of different requests are served in any order.
ConcCreates == Requests("create", Admin, {""}, {DefaultBody}, {FALSE})
ConcUpdates ==
    Requests("update", Admin, {HexString(1)},
             {[EmptyBody EXCEPT !.price = Str("7")]}, {FALSE})
ConcDeletes == Requests("delete", Admin, {HexString(k) : k \in 1..MaxIds}, {EmptyBody}, {FALSE})

Suspend(k, r, docs) == slots' = [slots EXCEPT ![k] = [req |-> r, docs |-> docs]]
Resume(k) == slots' = [slots EXCEPT ![k] = Idle]

\* POST /api/products up to `await prod.save()`
CreateCall(k, r) ==
    /\ slots[k] = Idle
    /\ r.op = "create"
    /\ IF ~checkAdmin(r)
       THEN Respond(r, Unauthorized) /\ UNCHANGED <<nextId, slots>>
       ELSE IF Falsy(r.body.name)
       THEN Respond(r, Response(400, <<>>, "none")) /\ UNCHANGED <<nextId, slots>>
       ELSE /\ nextId <= MaxIds
            /\ nextId' = nextId + 1
            /\ Suspend(k, r, <<NewProduct(r.body, nextId, now)>>)
            /\ UNCHANGED <<req, res>>
    /\ UNCHANGED <<env, products, now, tmpFiles, nextFile, inserted, deleted>>

\* save() is served and the handler answers
CreateReturn(k) ==
    /\ slots[k].req.op = "create"
    /\ LET saved == save(products, slots[k].docs[1], slots[k].req.body)
       IN /\ products' = saved.store
          /\ inserted' = inserted \cup Ids(saved.store)
          /\ IF saved.err THEN Respond(slots[k].req, Response(500, <<>>, "save"))
             ELSE Respond(slots[k].req, Response(200, saved.docs, "save"))
    /\ Resume(k)
    /\ UNCHANGED <<env, nextId, now, tmpFiles, nextFile, deleted>>

\* PUT /api/products/:id up to `await Product.findByIdAndUpdate(...)`
UpdateCall(k, r) ==
    /\ slots[k] = Idle
    /\ r.op = "update"
    /\ IF ~checkAdmin(r)
       THEN Respond(r, Unauthorized) /\ UNCHANGED slots
       ELSE Suspend(k, r, <<>>) /\ UNCHANGED <<req, res>>
    /\ UNCHANGED <<env, products, nextId, now, tmpFiles, nextFile, inserted, deleted>>

UpdateReturn(k) ==
    /\ slots[k].req.op = "update"
    /\ LET updated == findByIdAndUpdate(products, slots[k].req.id, slots[k].req.body)
       IN /\ products' = updated.store
          /\ IF updated.err
             THEN Respond(slots[k].req, Response(500, <<>>, "findByIdAndUpdate"))
             ELSE IF updated.docs = <<>>
             THEN Respond(slots[k].req, Response(404, <<>>, "findByIdAndUpdate"))
             ELSE Respond(slots[k].req, Response(200, updated.docs, "findByIdAndUpdate"))
    /\ Resume(k)
    /\ UNCHANGED <<env, nextId, now, tmpFiles, nextFile, inserted, deleted>>

\* DELETE /api/products/:id up to `await Product.findByIdAndDelete(...)`
DeleteCall(k, r) ==
    /\ slots[k] = Idle
    /\ r.op = "delete"
    /\ IF ~checkAdmin(r)
       THEN Respond(r, Unauthorized) /\ UNCHANGED slots
       ELSE Suspend(k, r, <<>>) /\ UNCHANGED <<req, res>>
    /\ UNCHANGED <<env, products, nextId, now, tmpFiles, nextFile, inserted, deleted>>

DeleteReturn(k) ==
    /\ slots[k].req.op = "delete"
    /\ LET removed == findByIdAndDelete(products, slots[k].req.id)
       IN /\ products' = removed.store
          /\ IF removed.err
             THEN /\ Respond(slots[k].req, Response(500, <<>>, "findByIdAndDelete"))
                  /\ UNCHANGED deleted
             ELSE IF removed.docs = <<>>
             THEN /\ Respond(slots[k].req, Response(404, <<>>, "findByIdAndDelete"))
                  /\ UNCHANGED deleted
             ELSE /\ Respond(slots[k].req, Response(200, <<>>, "findByIdAndDelete"))
                  /\ deleted' = [deleted EXCEPT ![removed.docs[1]._id] = @ + 1]
    /\ Resume(k)
    /\ UNCHANGED <<env, nextId, now, tmpFiles, nextFile, inserted>>

ConcNext ==
    \/ Tick
    \/ \E k \in 1..MaxSlots : \E r \in ConcCreates : CreateCall(k, r)
    \/ \E k \in 1..MaxSlots : CreateReturn(k)
    \/ \E k \in 1..MaxSlots : \E r \in ConcUpdates : UpdateCall(k, r)
    \/ \E k \in 1..MaxSlots : UpdateReturn(k)
    \/ \E k \in 1..MaxSlots : \E r \in ConcDeletes : DeleteCall(k, r)
    \/ \E k \in 1..MaxSlots : DeleteReturn(k)

ConcSpec == Init /\ [][ConcNext]_vars

\* ================================================================== claims
\* The token a request presents: the header when it carries one, else the
\* query parameter.
Candidate(r) == IF r.header.t = "str" /\ r.header.s # "" THEN r.header ELSE r.query
GatedOps == {"create", "update", "delete", "upload"}

\* A step that handles a request (the clock stands still in it).
RequestStep == now' = now

\* C1: a create, update, delete or upload request whose candidate token is
\* absent or differs from the configured admin token is answered 401, makes no
\* store or media call, stages no file and leaves the products as they were.
C1_GateRejects ==
    [][ (RequestStep /\ req'.op \in GatedOps /\ Candidate(req') # ADMIN_TOKEN)
        => /\ res'.status = 401
           /\ res'.call = "none"
           /\ res'.file = NoFile
           /\ UNCHANGED <<products, tmpFiles, nextFile, nextId, inserted, deleted>> ]_vars

\* A rejected request arrived while a product and a staged file existed.
C1_Witness ==
    /\ req.op \in GatedOps
    /\ Candidate(req) # ADMIN_TOKEN
    /\ req.query = Str("tok")
    /\ res.status = 401
    /\ products # {}
    /\ tmpFiles # {}

\* C3: when the upload handler has answered 200 or 500 for a request whose
\* file was staged, that file is gone from tmp/.
C3_StagedFileRemoved ==
    (req.op = "upload" /\ res.file # NoFile /\ res.status \in {200, 500})
        => res.file \notin tmpFiles

\* C9 as stated: 400 exactly when the password field is absent, 401 when it is
\* present and differs from the configured password, 200 with the configured
\* token when it matches.
C9_Original ==
    req.op = "login"
        => LET password == req.body.password
           IN /\ res.status = (IF password.t = "undef" THEN 400
                               ELSE IF password # ADMIN_PASSWORD THEN 401 ELSE 200)
              /\ res.status = 200 => res.token = ADMIN_TOKEN

\* C9 amended: 400 when the password is absent or empty (falsy), 401 when it
\* is non-empty and differs from the configured password, 200 with exactly the
\* configured token when it matches; no login changes the products, the
\* staged files or the configuration.
C9_Login ==
    [][ (RequestStep /\ req'.op = "login")
        => LET password == req'.body.password
           IN /\ res'.status = (IF Falsy(password) THEN 400
                                ELSE IF password # ADMIN_PASSWORD THEN 401 ELSE 200)
              /\ res'.token = (IF res'.status = 200 THEN ADMIN_TOKEN ELSE Undef)
              /\ UNCHANGED <<env, products, tmpFiles, nextFile, nextId,
                             inserted, deleted>> ]_vars

\* A login succeeded while products and a staged file existed.
C9_Witness ==
    /\ req.op = "login"
    /\ res.status = 200
    /\ res.token = Str("tok")
    /\ products # {}
    /\ tmpFiles # {}


\* The persisted record a path identifier names, if any.
Matching(store, id) == {d \in store : HexString(d._id) = id}
Authorized(r) == Candidate(r) = ADMIN_TOKEN

\* C2: get-one, update and delete of an identifier that matches no persisted
\* record answer 404.
C2_MissingIs404 ==
    [][ (RequestStep /\ req'.op \in {"get", "update", "delete"}
           /\ (req'.op # "get" => Authorized(req'))
           /\ Matching(products, req'.id) = {})
        => res'.status = 404 ]_vars

\* C4: a record keeps its createdAt for as long as it is persisted.
C4_CreatedAtImmutable ==
    [][ \A d \in products : \A e \in products' :
          e._id = d._id => e.createdAt = d.createdAt ]_vars

\* C5: every persisted record has a non-empty name.
C5_NamePresent == \A d \in products : d.name.t = "str" /\ d.name.s # ""

\* The record fields a body supplies.
Supplied(body) == {path \in productSchema : body[path].t # "undef"}

\* A supplied value as the schema's type for the path represents it.
Stored(path, v) == IF Cast(path, v).ok THEN Cast(path, v).v ELSE v

\* C6 as stated: an authorized update of an existing record sets exactly the
\* fields present in the body to the supplied values, leaves the rest of that
\* record and every other record alone, and answers 200 with the record a get
\* returns next.
C6_Original ==
    [][ (RequestStep /\ req'.op = "update" /\ Authorized(req')
           /\ Matching(products, req'.id) # {})
        => \E d \in Matching(products, req'.id) : \E e \in products' :
             /\ e._id = d._id
             /\ \A path \in productSchema :
                  e[path] = IF path \in Supplied(req'.body)
                            THEN Stored(path, req'.body[path]) ELSE d[path]
             /\ products' \ {e} = products \ {d}
             /\ res'.status = 200
             /\ res'.docs = <<e>>
             /\ findById(products', req'.id).docs = <<e>> ]_vars

\* An update body the schema accepts for the record d: every supplied value
\* casts to its path's type, and the body names no other _id.
Accepted(body, d) ==
    /\ \A path \in Supplied(body) : Cast(path, body[path]).ok
    /\ body["_id"].t # "undef" => body["_id"] = Str(HexString(d._id))

\* C6 amended: when the schema accepts the body, the update sets exactly the
\* schema fields present in the body to the cast of the supplied values,
\* leaves the rest of that record and every other record alone, and answers
\* 200 with the record a get returns next; otherwise it answers 500 and
\* changes nothing.
C6_PartialUpdate ==
    [][ (RequestStep /\ req'.op = "update" /\ Authorized(req')
           /\ Matching(products, req'.id) # {})
        => \E d \in Matching(products, req'.id) :
             IF Accepted(req'.body, d)
             THEN \E e \in products' :
                    /\ e._id = d._id
                    /\ \A path \in productSchema :
                         e[path] = IF path \in Supplied(req'.body)
                                   THEN Cast(path, req'.body[path]).v ELSE d[path]
                    /\ products' \ {e} = products \ {d}
                    /\ res'.status = 200
                    /\ res'.docs = <<e>>
                    /\ findById(products', req'.id).docs = <<e>>
             ELSE res'.status = 500 /\ products' = products ]_vars

\* A partial update changed the price of one of two records and left its
\* brand and the other record as they were.
C6_Witness ==
    /\ req.op = "update"
    /\ req.body.price = Str("7")
    /\ res.status = 200
    /\ res.docs[1].name = Str("a")
    /\ res.docs[1].price = Num(7)
    /\ \E d \in products : d.name = Str("b") /\ d.brand = Str("x")

\* C7 as stated: an authorized create without a name answers 400 and persists
\* nothing; one with a non-empty name persists exactly one new record with the
\* submitted name, price 0 when omitted, and an identifier never held before.
C7_Original ==
    [][ (RequestStep /\ req'.op = "create" /\ Authorized(req'))
        => /\ req'.body.name \in {Undef, Str("")}
                => res'.status = 400 /\ products' = products
           /\ (req'.body.name.t = "str" /\ req'.body.name.s # "")
                => \E e \in products' \ products :
                     /\ products' = products \cup {e}
                     /\ e.name = req'.body.name
                     /\ req'.body.price = Undef => e.price = Num(0)
                     /\ e._id \notin inserted ]_vars

\* C7 amended: a falsy name answers 400 and persists nothing; a non-empty name
\* with values the schema can cast persists exactly one new record whose name
\* is the submitted name as a string, whose price is 0 when omitted and whose
\* identifier was never held before, and answers 200 with it; a value the
\* schema cannot cast answers 500 and persists nothing.
C7_Create ==
    [][ (RequestStep /\ req'.op = "create" /\ Authorized(req'))
        => IF Falsy(req'.body.name)
           THEN res'.status = 400 /\ products' = products
           ELSE IF \A path \in CreatePaths : Cast(path, req'.body[path]).ok
           THEN \E e \in products' \ products :
                  /\ products' = products \cup {e}
                  /\ e.name = castString(req'.body.name).v
                  /\ req'.body.price = Undef => e.price = Num(0)
                  /\ e._id \notin inserted
                  /\ e._id \notin Ids(products)
                  /\ res'.status = 200
                  /\ res'.docs = <<e>>
           ELSE res'.status = 500 /\ products' = products ]_vars

\* A create without a price was persisted next to an earlier record.
C7_Witness ==
    /\ req.op = "create"
    /\ req.body.price = Undef
    /\ res.status = 200
    /\ res.docs[1].price = Num(0)
    /\ res.docs[1] \in products
    /\ Cardinality(products) = 2

\* The listing holds exactly the persisted records, by createdAt descending.
ListsPersisted ==
    /\ Len(res.docs) = Cardinality(products)
    /\ {res.docs[i] : i \in 1..Len(res.docs)} = products
    /\ \A i, j \in 1..Len(res.docs) :
         i < j => SortKey(res.docs[i]) >= SortKey(res.docs[j])

\* C8 as stated: the listing is exactly the persisted records by createdAt
\* descending, and no record created later follows one created earlier.
C8_Original ==
    req.op = "list"
        => /\ ListsPersisted
           /\ \A i, j \in 1..Len(res.docs) : i < j => res.docs[i]._id > res.docs[j]._id

\* C8 amended: the listing is exactly the persisted records, ordered by their
\* stored createdAt descending.
C8_List == req.op = "list" => ListsPersisted

\* A listing of two records with different createdAt.
C8_Witness ==
    /\ req.op = "list"
    /\ Len(res.docs) = 2
    /\ SortKey(res.docs[1]) > SortKey(res.docs[2])


\* C10: under every interleaving of concurrent create, update and delete
\* requests, at most one DELETE of an identifier is answered 200, and an
\* identifier whose DELETE was answered 200 names no persisted record again.
C10_DeletedOnce ==
    \A k \in DOMAIN deleted :
        /\ deleted[k] <= 1
        /\ deleted[k] = 1 => k \notin Ids(products)

\* One DELETE of an identifier was answered 200 while an update of the same
\* identifier is still suspended at its store call, and a later DELETE of it
\* was answered 404.
C10_Witness ==
    /\ deleted[1] = 1
    /\ \E k \in 1..MaxSlots :
         slots[k].req.op = "update" /\ slots[k].req.id = HexString(1)
    /\ req.op = "delete" /\ req.id = HexString(1) /\ res.status = 404

====
